---- MODULE Spec2Model ----
(***************************************************************************)
(* wordpress-to-zola: conversion of a WordPress export into a zola content *)
(* tree (src/src/main.rs).                                                 *)
(*                                                                         *)
(* A string is a sequence of one-character strings, so that the character  *)
(* level operations of the program (replace, trim_start_matches,           *)
(* trim_matches, the split of a path into components) are computed and not *)
(* assumed.  A path is a sequence of components, each a string.            *)
(***************************************************************************)
EXTENDS Naturals, Sequences, FiniteSets, TLC

VARIABLES
    pc,        \* position of convert: "start", "iterate", "done", "failed"
    fatal,     \* the fatal error that ended the run, "none" while there is none
    base_url,  \* rss.channel.base_site_url
    items,     \* the items the loop has taken from rss.channel.item, in order
    sections,  \* the HashSet of section directories
    dirs,      \* file system: the directories that exist
    files,     \* file system: file path -> the lines of the file
    log,       \* the file-system writes of the run, in order
    arg,       \* argument of the pure function under check
    ret,       \* its result
    called     \* whether the function has been applied

vars == <<pc, fatal, base_url, items, sections, dirs, files, log, arg, ret, called>>

convertVars == <<pc, fatal, base_url, items, sections, dirs, files, log>>
callVars == <<arg, ret, called>>

(***************************************************************************)
(* Bounds                                                                  *)
(***************************************************************************)
MaxContentLen == 4
MaxBaseLen == 2
MaxLinkLen == 4
MaxCategories == 3
MaxItems == 2

(***************************************************************************)
(* Strings                                                                 *)
(***************************************************************************)
CR == "\r"
LF == "\n"
Slash == "/"

SeqsUpTo(S, n) == UNION {[1..k -> S] : k \in 0..n}

StartsWith(s, p) == Len(p) <= Len(s) /\ SubSeq(s, 1, Len(p)) = p

\* str::replace(from, to) for a one-character pattern `from`
RECURSIVE Replace(_, _, _)
Replace(s, from, to) ==
    IF s = <<>> THEN <<>>
    ELSE (IF Head(s) = from THEN to ELSE <<Head(s)>>) \o Replace(Tail(s), from, to)

\* number of (non-overlapping, left to right) occurrences of p in s
RECURSIVE Occurrences(_, _)
Occurrences(s, p) ==
    IF Len(s) < Len(p) THEN 0
    ELSE IF StartsWith(s, p) THEN 1 + Occurrences(SubSeq(s, Len(p) + 1, Len(s)), p)
    ELSE Occurrences(Tail(s), p)

(***************************************************************************)
(* normalize_line_breaks                                                   *)
(***************************************************************************)
Br == <<"<", "b", "r", ">">>

normalize_line_breaks(content) ==
    LET content_without_windows_breaks == Replace(content, CR, <<LF>>)
        normalized_content == Replace(content_without_windows_breaks, LF, Br)
    IN  normalized_content

(***************************************************************************)
(* generate_path                                                           *)
(***************************************************************************)
DotMd == <<".", "m", "d">>

\* str::trim_start_matches(pat): removes every repeated leading match of pat;
\* an empty pattern removes nothing
RECURSIVE trim_start_matches(_, _)
trim_start_matches(s, pat) ==
    IF pat # <<>> /\ StartsWith(s, pat)
    THEN trim_start_matches(SubSeq(s, Len(pat) + 1, Len(s)), pat)
    ELSE s

RECURSIVE TrimStartChar(_, _)
TrimStartChar(s, c) ==
    IF s # <<>> /\ Head(s) = c THEN TrimStartChar(Tail(s), c) ELSE s

RECURSIVE TrimEndChar(_, _)
TrimEndChar(s, c) ==
    IF s # <<>> /\ s[Len(s)] = c THEN TrimEndChar(SubSeq(s, 1, Len(s) - 1), c) ELSE s

\* str::trim_matches(c) for a character pattern
trim_matches(s, c) == TrimEndChar(TrimStartChar(s, c), c)

generate_path(base, link) ==
    trim_matches(trim_start_matches(link, base), Slash) \o DotMd

(***************************************************************************)
(* Taxonomy split of convert (the loop over item.categories)               *)
(***************************************************************************)
PostTagDomain == <<"p", "o", "s", "t", "_", "t", "a", "g">>
CategoryDomain == <<"c", "a", "t", "e", "g", "o", "r", "y">>

\* TaxonomyStep with the arms of the match exchanged
TaxonomyStepSwapped(acc, category) ==
    IF category.domain = PostTagDomain
    THEN <<acc[1], Append(acc[2], category.nicename)>>
    ELSE IF category.domain = CategoryDomain
    THEN <<Append(acc[1], category.nicename), acc[2]>>
    ELSE acc

\* one iteration of `for category in &item.categories`; acc = <<tags, categories>>
TaxonomyStep(acc, category) ==
    IF category.domain = PostTagDomain
    THEN <<Append(acc[1], category.nicename), acc[2]>>
    ELSE IF category.domain = CategoryDomain
    THEN <<acc[1], Append(acc[2], category.nicename)>>
    ELSE acc

RECURSIVE TaxonomyLoop(_, _)
TaxonomyLoop(acc, cats) ==
    IF cats = <<>> THEN acc
    ELSE TaxonomyLoop(TaxonomyStep(acc, Head(cats)), Tail(cats))

\* [tags, categories] as convert has them after the loop
SplitTaxonomy(cats) ==
    LET r == TaxonomyLoop(<<<<>>, <<>>>>, cats)
    IN  [tags |-> r[1], categories |-> r[2]]

(***************************************************************************)
(* State of convert while a pure function is checked on its own, and the   *)
(* reverse.                                                                *)
(***************************************************************************)
ConvertIdle ==
    /\ pc = "start"
    /\ fatal = "none"
    /\ base_url = <<>>
    /\ items = <<>>
    /\ sections = {}
    /\ dirs = {}
    /\ files = <<>>
    /\ log = <<>>

CallIdle ==
    /\ arg = <<>>
    /\ ret = <<>>
    /\ called = FALSE

(***************************************************************************)
(* SpecNormalize: normalize_line_breaks applied once to a bounded input    *)
(***************************************************************************)
ContentChars == {CR, LF, "x"}

InitNormalize ==
    /\ ConvertIdle
    /\ arg \in SeqsUpTo(ContentChars, MaxContentLen)
    /\ ret = <<>>
    /\ called = FALSE

Normalize ==
    /\ ~called
    /\ ret' = normalize_line_breaks(arg)
    /\ called' = TRUE
    /\ UNCHANGED <<arg, convertVars>>

NextNormalize == Normalize

SpecNormalize == InitNormalize /\ [][NextNormalize]_vars

(***************************************************************************)
(* SpecPath: generate_path applied once to a bounded (base_url, link)      *)
(***************************************************************************)
UrlChars == {"h", Slash, "a"}

InitPath ==
    /\ ConvertIdle
    /\ arg \in {<<b, l>> : b \in (SeqsUpTo(UrlChars, MaxBaseLen) \ {<<>>}),
                           l \in SeqsUpTo(UrlChars, MaxLinkLen)}
    /\ ret = <<>>
    /\ called = FALSE

GeneratePath ==
    /\ ~called
    /\ ret' = generate_path(arg[1], arg[2])
    /\ called' = TRUE
    /\ UNCHANGED <<arg, convertVars>>

NextPath == GeneratePath

SpecPath == InitPath /\ [][NextPath]_vars

(***************************************************************************)
(* SpecTaxonomy: the taxonomy split applied to a bounded category list     *)
(***************************************************************************)
OtherDomain == <<"n", "a", "v", "_", "m", "e", "n", "u">>
Domains == {PostTagDomain, CategoryDomain, OtherDomain}
News == <<"n", "e", "w", "s">>
Rust == <<"r", "u", "s", "t">>
Zola == <<"z", "o", "l", "a">>
Nicenames == {News, Rust, Zola}
Categories == [domain : Domains, nicename : Nicenames]

InitTaxonomy ==
    /\ ConvertIdle
    /\ arg \in SeqsUpTo(Categories, MaxCategories)
    /\ ret = <<>>
    /\ called = FALSE

Taxonomy ==
    /\ ~called
    /\ ret' = SplitTaxonomy(arg)
    /\ called' = TRUE
    /\ UNCHANGED <<arg, convertVars>>

NextTaxonomy == Taxonomy

SpecTaxonomy == InitTaxonomy /\ [][NextTaxonomy]_vars

(***************************************************************************)
(* Paths                                                                   *)
(***************************************************************************)
OutputDir == << <<"o", "u", "t">> >>
IndexMd == <<"_", "i", "n", "d", "e", "x", ".", "m", "d">>

\* Path::components of a relative path string: the '/'-separated components,
\* empty components and "." dropped (cur is the component being read)
RECURSIVE SplitComponents(_, _)
SplitComponents(s, cur) ==
    LET done == IF cur = <<>> \/ cur = <<".">> THEN <<>> ELSE <<cur>>
    IN  IF s = <<>> THEN done
        ELSE IF Head(s) = Slash THEN done \o SplitComponents(Tail(s), <<>>)
        ELSE SplitComponents(Tail(s), Append(cur, Head(s)))

Components(s) == SplitComponents(s, <<>>)

\* output_dir.join(generate_path(..)); generate_path never starts with '/',
\* so the joined string is relative and is appended to output_dir
ItemPath(base, link) == OutputDir \o Components(generate_path(base, link))

\* path.parent()
Parent(path) == SubSeq(path, 1, Len(path) - 1)

\* the directory and all its ancestors
Prefixes(dir) == {SubSeq(dir, 1, k) : k \in 1..Len(dir)}

create_dir_all(ds, dir) == ds \cup Prefixes(dir)

\* File::create followed by the writes: the file holds exactly these lines
WriteFile(fs, path, lines) == (path :> lines) @@ fs

(***************************************************************************)
(* The section set                                                         *)
(***************************************************************************)
\* SectionIsNew when the set is not consulted
SectionIsNewAlways(secs, section) == TRUE

\* the value of sections.insert(section): true when section was not present
SectionIsNew(secs, section) == section \notin secs

\* SectionsInsert when the set keeps only the last section
SectionsInsertForgetful(secs, section) == {section}

\* the set after sections.insert(section)
SectionsInsert(secs, section) == secs \cup {section}

(***************************************************************************)
(* File contents: a file is a sequence of lines, a line a sequence of      *)
(* pieces of text                                                          *)
(***************************************************************************)
PAGINATE_BY == 5

SectionFile(section) == Append(section, IndexMd)

SectionLines ==
    << <<"+++">>,
       <<"transparent = true">>,
       <<"sort_by = \"date\"">>,
       <<"paginate_by = " \o ToString(PAGINATE_BY)>>,
       <<"+++">> >>

\* title.replace("\"", "\\\"")
EscapeTitle(title) == Replace(title, "\"", <<"\\", "\"">>)

\* iter().map(|c| format!("\"{}\"", c)).collect().join(", ")
RECURSIVE JoinQuoted(_)
JoinQuoted(names) ==
    IF names = <<>> THEN <<>>
    ELSE <<"\"">> \o Head(names) \o <<"\"">>
         \o (IF Tail(names) = <<>> THEN <<>> ELSE <<", ">> \o JoinQuoted(Tail(names)))

PageLines(title, date, markdown, categories, tags) ==
    << <<"+++">>,
       <<"title = \"">> \o EscapeTitle(title) \o <<"\"">>,
       <<"date = ">> \o date,
       <<"[taxonomies]">>,
       <<"categories = [">> \o JoinQuoted(categories) \o <<"]">>,
       <<"tags = [">> \o JoinQuoted(tags) \o <<"]">>,
       <<"+++">>,
       markdown >>

(***************************************************************************)
(* External collaborators of convert                                       *)
(***************************************************************************)
GoodDate == <<"Wed, 01 Jan 2020 00:00:00 +0000">>
BadDate == <<"2020-01-01">>

\* DateTime::parse_from_rfc2822 succeeds
DateParses(pub_date) == pub_date = GoodDate

\* date.to_rfc3339() of the parsed date
to_rfc3339(pub_date) == <<"2020-01-01T00:00:00+00:00">>

\* html2md::parse_html, left uninterpreted: the markdown of this html
parse_html(html) == <<"parse_html(">> \o html \o <<")">>

(***************************************************************************)
(* Items                                                                   *)
(***************************************************************************)
\* Item::content
content(item) == item.encoded[1]

SiteUrl == <<"h">>
SegA == <<"a">>
SegIndex == <<"_", "i", "n", "d", "e", "x">>

\* permalinks below the site url, by their path segments
PostPaths ==
    { <<SegA>>, <<SegIndex>>, <<SegA, SegA>>, <<SegA, SegIndex>>, <<SegA, SegA, SegA>> }

RECURSIVE JoinSlash(_)
JoinSlash(segs) ==
    IF segs = <<>> THEN <<>> ELSE Head(segs) \o <<Slash>> \o JoinSlash(Tail(segs))

Links == {SiteUrl \o <<Slash>> \o JoinSlash(p) : p \in PostPaths}

Title1 == <<"H", "i">>
Title2 == <<"\"", "x", "\"">>
Body == <<"x", CR, LF, "y">>
ItemCategories ==
    << [domain |-> CategoryDomain, nicename |-> News],
       [domain |-> PostTagDomain, nicename |-> Rust],
       [domain |-> OtherDomain, nicename |-> Zola] >>

MkItem(status, post_type, link, title, pub_date) ==
    [title |-> title, link |-> link, pub_date |-> pub_date, post_type |-> post_type,
     encoded |-> <<Body>>, status |-> status, categories |-> ItemCategories]

Statuses == {"publish", "draft", "inherit", "private"}
PostTypes == {"attachment", "post"}

PublishedPosts ==
    {MkItem("publish", "post", l, td[1], td[2]) :
        l \in Links, td \in {<<Title1, GoodDate>>, <<Title2, GoodDate>>, <<Title1, BadDate>>}}

OtherItems ==
    {MkItem(st, ty, SiteUrl \o <<Slash>> \o SegA \o <<Slash>>, Title1, GoodDate) :
        st \in Statuses, ty \in PostTypes} \ PublishedPosts

ItemSet == PublishedPosts \cup OtherItems

(***************************************************************************)
(* convert                                                                 *)
(***************************************************************************)
\* IsPublish when the `continue` of the other statuses is missing
IsPublishAny(status) == TRUE

\* match item.status { Status::Publish => {}, _ => continue }
IsPublish(status) == status = "publish"

\* match item.post_type { PostType::Post => .., _ => debug!(..) }
IsPost(post_type) == post_type = "post"

\* AfterFatal when the error is swallowed and the loop goes on
AfterFatalContinue == "iterate"

\* where convert is after a `?` or an `expect` met an error
AfterFatal == "failed"

\* the page file of an item as create_page writes it
ItemPage(item) ==
    LET tax == SplitTaxonomy(item.categories)
        markdown == parse_html(normalize_line_breaks(content(item)))
    IN  PageLines(item.title, to_rfc3339(item.pub_date), markdown, tax.categories, tax.tags)

Event(op, path, lines) == [item |-> Len(items) + 1, op |-> op, path |-> path, lines |-> lines]

Init ==
    /\ pc = "start"
    /\ fatal = "none"
    /\ base_url = <<>>
    /\ items = <<>>
    /\ sections = {}
    /\ dirs = {}
    /\ files = <<>>
    /\ log = <<>>
    /\ CallIdle

\* File::open(input_file)? fails
OpenFail ==
    /\ pc = "start"
    /\ pc' = AfterFatal
    /\ fatal' = "open"
    /\ UNCHANGED <<base_url, items, sections, dirs, files, log, callVars>>

\* from_reader(file).expect("cannot parse xml") panics
ParseFail ==
    /\ pc = "start"
    /\ pc' = AfterFatal
    /\ fatal' = "parse"
    /\ UNCHANGED <<base_url, items, sections, dirs, files, log, callVars>>

ParseOk ==
    /\ pc = "start"
    /\ pc' = "iterate"
    /\ base_url' = SiteUrl
    /\ UNCHANGED <<fatal, items, sections, dirs, files, log, callVars>>

\* an item whose status is not Publish: continue
SkipItem ==
    /\ pc = "iterate"
    /\ Len(items) < MaxItems
    /\ \E item \in ItemSet :
        /\ ~IsPublish(item.status)
        /\ items' = Append(items, item)
    /\ UNCHANGED <<pc, fatal, base_url, sections, dirs, files, log, callVars>>

\* a published item that is no post: logged only
IgnoreAttachment ==
    /\ pc = "iterate"
    /\ Len(items) < MaxItems
    /\ \E item \in ItemSet :
        /\ IsPublish(item.status)
        /\ ~IsPost(item.post_type)
        /\ items' = Append(items, item)
    /\ UNCHANGED <<pc, fatal, base_url, sections, dirs, files, log, callVars>>

\* a published post, every step of the loop body succeeding
ConvertPost ==
    /\ pc = "iterate"
    /\ Len(items) < MaxItems
    /\ \E item \in ItemSet :
        LET path == ItemPath(base_url, item.link)
            section == Parent(path)
            isNew == SectionIsNew(sections, section)
            secEv == IF isNew
                     THEN <<Event("section", SectionFile(section), SectionLines)>>
                     ELSE <<>>
            fs1 == IF isNew THEN WriteFile(files, SectionFile(section), SectionLines)
                   ELSE files
        IN  /\ IsPublish(item.status)
            /\ IsPost(item.post_type)
            /\ DateParses(item.pub_date)
            /\ items' = Append(items, item)
            /\ dirs' = create_dir_all(dirs, section)
            /\ sections' = SectionsInsert(sections, section)
            /\ files' = WriteFile(fs1, path, ItemPage(item))
            /\ log' = log \o <<Event("mkdir", section, <<>>)>> \o secEv
                          \o <<Event("page", path, ItemPage(item))>>
    /\ UNCHANGED <<pc, fatal, base_url, callVars>>

\* a published post on which a step of the loop body meets a fatal error:
\* create_dir_all?, File::create? or writeln!? in create_section, the expect
\* on the parsed date, File::create? or writeln!? in create_page
ConvertPostFail ==
    /\ pc = "iterate"
    /\ Len(items) < MaxItems
    /\ \E item \in ItemSet :
        LET path == ItemPath(base_url, item.link)
            section == Parent(path)
            isNew == SectionIsNew(sections, section)
            mkEv == <<Event("mkdir", section, <<>>)>>
            secEv == IF isNew
                     THEN <<Event("section", SectionFile(section), SectionLines)>>
                     ELSE <<>>
            fs1 == IF isNew THEN WriteFile(files, SectionFile(section), SectionLines)
                   ELSE files
        IN  /\ IsPublish(item.status)
            /\ IsPost(item.post_type)
            /\ items' = Append(items, item)
            /\ pc' = AfterFatal
            /\ \/ \E k \in 0..(Len(section) - 1) :
                    \* create_dir_all fails having made k of the directories
                    /\ fatal' = "io"
                    /\ dirs' = dirs \cup Prefixes(SubSeq(section, 1, k))
                    /\ log' = IF k = 0 THEN log
                              ELSE Append(log, Event("mkdir", SubSeq(section, 1, k), <<>>))
                    /\ UNCHANGED <<sections, files>>
               \/ \* File::create in create_section fails
                  /\ isNew
                  /\ fatal' = "io"
                  /\ dirs' = create_dir_all(dirs, section)
                  /\ sections' = SectionsInsert(sections, section)
                  /\ log' = log \o mkEv
                  /\ UNCHANGED files
               \/ \E k \in 0..(Len(SectionLines) - 1) :
                    \* a writeln! in create_section fails after k lines
                    /\ isNew
                    /\ fatal' = "io"
                    /\ dirs' = create_dir_all(dirs, section)
                    /\ sections' = SectionsInsert(sections, section)
                    /\ files' = WriteFile(files, SectionFile(section),
                                          SubSeq(SectionLines, 1, k))
                    /\ log' = log \o mkEv
                                  \o <<Event("section", SectionFile(section),
                                             SubSeq(SectionLines, 1, k))>>
               \/ \* parse_from_rfc2822(..).expect("cannot parse pubDate") panics
                  /\ ~DateParses(item.pub_date)
                  /\ fatal' = "date"
                  /\ dirs' = create_dir_all(dirs, section)
                  /\ sections' = SectionsInsert(sections, section)
                  /\ files' = fs1
                  /\ log' = log \o mkEv \o secEv
               \/ \* File::create in create_page fails
                  /\ DateParses(item.pub_date)
                  /\ fatal' = "io"
                  /\ dirs' = create_dir_all(dirs, section)
                  /\ sections' = SectionsInsert(sections, section)
                  /\ files' = fs1
                  /\ log' = log \o mkEv \o secEv
               \/ \E k \in 0..(Len(ItemPage(item)) - 1) :
                    \* a writeln! in create_page fails after k lines
                    /\ DateParses(item.pub_date)
                    /\ fatal' = "io"
                    /\ dirs' = create_dir_all(dirs, section)
                    /\ sections' = SectionsInsert(sections, section)
                    /\ files' = WriteFile(fs1, path, SubSeq(ItemPage(item), 1, k))
                    /\ log' = log \o mkEv \o secEv
                                  \o <<Event("page", path, SubSeq(ItemPage(item), 1, k))>>
    /\ UNCHANGED <<base_url, callVars>>

\* the iterator is exhausted: Ok(())
Finish ==
    /\ pc = "iterate"
    /\ pc' = "done"
    /\ UNCHANGED <<fatal, base_url, items, sections, dirs, files, log, callVars>>

Next ==
    \/ OpenFail
    \/ ParseFail
    \/ ParseOk
    \/ SkipItem
    \/ IgnoreAttachment
    \/ ConvertPost
    \/ ConvertPostFail
    \/ Finish

Spec == Init /\ [][Next]_vars

(***************************************************************************)
(* Properties                                                              *)
(***************************************************************************)
IsPrefix(s, t) == Len(s) <= Len(t) /\ SubSeq(t, 1, Len(s)) = s

\* logical line endings of a text: CRLF, lone CR and lone LF count once each
RECURSIVE LineEndings(_)
LineEndings(s) ==
    IF s = <<>> THEN 0
    ELSE IF Len(s) >= 2 /\ s[1] = CR /\ s[2] = LF
    THEN 1 + LineEndings(SubSeq(s, 3, Len(s)))
    ELSE IF Head(s) \in {CR, LF} THEN 1 + LineEndings(Tail(s))
    ELSE LineEndings(Tail(s))

\* C1: normalize_line_breaks inserts one "<br>" per logical line ending of its
\* input, a CRLF pair counting once (so "line1\r\nline2" gets one "<br>").
C1_OneBreakPerLineEnding ==
    called => Occurrences(ret, Br) = LineEndings(arg)

StripPrefixOnce(base, link) ==
    IF StartsWith(link, base) THEN SubSeq(link, Len(base) + 1, Len(link)) ELSE link

\* C4: generate_path(base_url, link) is link with one leading base_url removed
\* when link starts with it, then stripped of leading and trailing '/', then
\* ".md" appended.
C4_PrefixStrippedOnce ==
    called => ret = trim_matches(StripPrefixOnce(arg[1], arg[2]), Slash) \o DotMd

NicenamesOf(cats, domain) ==
    LET sel == SelectSeq(cats, LAMBDA c : c.domain = domain)
    IN  [i \in 1..Len(sel) |-> sel[i].nicename]

\* C9: tags is the subsequence of nicenames with domain "post_tag", categories
\* the subsequence with domain "category", in source order with duplicates
\* kept; entries of another domain are in neither list.
C9_TaxonomyPartition ==
    called =>
        /\ ret.tags = NicenamesOf(arg, PostTagDomain)
        /\ ret.categories = NicenamesOf(arg, CategoryDomain)
        /\ Len(ret.tags) + Len(ret.categories)
             = Cardinality({i \in DOMAIN arg :
                              arg[i].domain \in {PostTagDomain, CategoryDomain}})

C9_Witness ==
    /\ called
    /\ arg = << [domain |-> CategoryDomain, nicename |-> News],
                [domain |-> PostTagDomain, nicename |-> Rust],
                [domain |-> PostTagDomain, nicename |-> Zola] >>
    /\ ret.categories = <<News>>
    /\ ret.tags = <<Rust, Zola>>

PublishedPost(i) == items[i].status = "publish" /\ items[i].post_type = "post"
PostIndices == {i \in DOMAIN items : PublishedPost(i)}
PathOf(i) == ItemPath(base_url, items[i].link)
SectionEvents == {k \in DOMAIN log : log[k].op = "section"}
PageEvents == {k \in DOMAIN log : log[k].op = "page"}
SectionWrites(d) == {k \in SectionEvents : log[k].path = Append(d, IndexMd)}

FixedSectionIndex ==
    << <<"+++">>, <<"transparent = true">>, <<"sort_by = \"date\"">>,
       <<"paginate_by = 5">>, <<"+++">> >>

C3_NoWriteForSkipped ==
    [][(Len(items') = Len(items) + 1
          /\ (items'[Len(items')].status # "publish"
                \/ items'[Len(items')].post_type = "attachment"))
         => UNCHANGED <<files, dirs, sections, log>>]_vars

C3_Witness ==
    /\ Len(items) = 2
    /\ items[1].status = "publish" /\ items[1].post_type = "attachment"
    /\ items[2].status = "draft" /\ items[2].post_type = "post"
    /\ dirs = {} /\ DOMAIN files = {} /\ sections = {} /\ log = <<>>

\* C5: after a completed run the file at the path of every published post
\* holds that post's page, and every page file belongs to exactly one
\* published post.
C5_EveryPostHasItsPage ==
    pc = "done" =>
        /\ \A i \in PostIndices :
             PathOf(i) \in DOMAIN files /\ files[PathOf(i)] = ItemPage(items[i])
        /\ \A k \in PageEvents :
             Cardinality({i \in PostIndices : PathOf(i) = log[k].path}) = 1

\* C6: after the first fatal error nothing is written any more; a failure to
\* open or parse the document leaves no output; what is on disk is never
\* removed.
C6_FailFast ==
    /\ [][fatal # "none" => UNCHANGED <<files, dirs, sections, log>>]_vars
    /\ [](fatal \in {"open", "parse"} => dirs = {} /\ DOMAIN files = {} /\ log = <<>>)
    /\ [][IsPrefix(log, log') /\ dirs \subseteq dirs'
            /\ DOMAIN files \subseteq DOMAIN files']_vars

C6_Witness ==
    /\ fatal = "date"
    /\ pc = "failed"
    /\ Len(items) = 2
    /\ PostIndices = {1, 2}
    /\ PathOf(1) \in DOMAIN files
    /\ files[PathOf(1)] = ItemPage(items[1])
    /\ PathOf(2) \notin DOMAIN files

\* C7: after a completed run every directory between the output root and the
\* file of a published post holds an _index.md.
C7_EveryAncestorHasIndex ==
    pc = "done" =>
        \A i \in PostIndices :
            \A k \in (Len(OutputDir) + 1)..(Len(PathOf(i)) - 1) :
                Append(SubSeq(PathOf(i), 1, k), IndexMd) \in DOMAIN files

\* the sections of the published posts among the first n items, in order
RECURSIVE PostSections(_)
PostSections(n) ==
    IF n = 0 THEN <<>>
    ELSE PostSections(n - 1) \o (IF PublishedPost(n) THEN <<Parent(PathOf(n))>> ELSE <<>>)

\* a sequence with only the first occurrence of each element kept
RECURSIVE FirstOccurrences(_)
FirstOccurrences(s) ==
    IF s = <<>> THEN <<>>
    ELSE LET front == FirstOccurrences(SubSeq(s, 1, Len(s) - 1))
             last == s[Len(s)]
         IN  IF \E j \in DOMAIN front : front[j] = last THEN front ELSE Append(front, last)

\* the directories of the section-index writes, in the order of the writes
RECURSIVE SectionWriteOrder(_)
SectionWriteOrder(n) ==
    IF n = 0 THEN <<>>
    ELSE SectionWriteOrder(n - 1)
           \o (IF log[n].op = "section" THEN <<Parent(log[n].path)>> ELSE <<>>)

C8_LogOrder ==
    /\ \A j, k \in DOMAIN log : j < k => log[j].item <= log[k].item
    /\ IsPrefix(SectionWriteOrder(Len(log)), FirstOccurrences(PostSections(Len(items))))
    /\ pc = "done" =>
         SectionWriteOrder(Len(log)) = FirstOccurrences(PostSections(Len(items)))
    /\ \A k \in PageEvents :
         \E j \in SectionEvents :
            j < k /\ log[j].path = Append(Parent(log[k].path), IndexMd)

\* C8: writes happen in item order, section indexes are written in the order
\* their directories are first met among the published posts, a directory's
\* section index is written before its first page, and the section set never
\* loses a member.
C8_Order ==
    /\ []C8_LogOrder
    /\ [][sections \subseteq sections']_vars

C8_Witness ==
    /\ pc = "done"
    /\ Len(items) = 2
    /\ PostIndices = {1, 2}
    /\ Parent(PathOf(1)) # Parent(PathOf(2))
    /\ SectionWriteOrder(Len(log)) = <<Parent(PathOf(1)), Parent(PathOf(2))>>
    /\ sections = {Parent(PathOf(1)), Parent(PathOf(2))}

\* C10: no page is written to a file path to which a section index is written
\* in the same run.
C10_PageNeverOnSectionIndex ==
    \A j \in SectionEvents : \A k \in PageEvents : log[j].path # log[k].path

====
